---- MODULE Spec2Model ----
(***************************************************************************)
(* The K3s backup pipeline of adsz/ol01-k3s-backup:                        *)
(*   backup_k3s.py              collects the cluster state into a staging  *)
(*                              directory and uploads it to S3;            *)
(*   aws_merged_backup_script.py bootstraps a checkout, runs backup_k3s.py *)
(*                              through a generated bash wrapper and then  *)
(*                              uploads the staging directory again.       *)
(*                                                                         *)
(* A path is the sequence of its components; it becomes text only where    *)
(* the code builds text from it (os.path.join, os.path.relpath, f-string), *)
(* with the separator of the host.  The text of a file is a string.        *)
(***************************************************************************)
EXTENDS Naturals, Sequences, FiniteSets, TLC

VARIABLES
    env,              \* what the run is given: entry point, host, cluster host state, fault limits
    pc,               \* position of the single thread of control
    k3s_info,         \* backup_k3s.py: the dict get_k3s_info() returns
    resIdx,           \* backup_k3s.py: index of the next entry of `resources`
    dirs,             \* staging area: the directories, relative to the staging root
    files,            \* staging area: relative path of each regular file -> its text
    cmdLog,           \* the commands run_command has run, in order, with their exit status
    walkStack,        \* backup_k3s.py: directories os.walk has still to list
    curFiles,         \* backup_k3s.py: files of the listed directory not yet uploaded
    files_to_upload,  \* aws_merged_backup_script.py: tasks not yet attempted
    attempted,        \* upload attempts of the current upload_to_s3 call, in order
    bucket,           \* keys of the objects stored in the S3 bucket
    walkCount,        \* number of os.walk enumerations of the staging area started
    k3sExit,          \* exit status of the backup_k3s.py process
    runResult         \* final outcome of the run

vars == << env, pc, k3s_info, resIdx, dirs, files, cmdLog, walkStack, curFiles,
           files_to_upload, attempted, bucket, walkCount, k3sExit, runResult >>

----------------------------------------------------------------------------
(* Bounds of the model *)

\* At most this many run_command calls exit non-zero in a pipeline run.
MaxCmdFailures == 1
\* At most this many s3 upload_file calls fail in one upload_to_s3 call.
MaxUploadFailures == 1

\* Separators a host may use (os.sep): POSIX and Windows.
Seps == {"/", "\\"}

\* Entries the static manifests directory of the host may hold.
ManifestNames == { [stem |-> "x", ext |-> ".yaml"], [stem |-> "README", ext |-> ".md"] }

----------------------------------------------------------------------------
(* Program constants *)

resources == << "deployments", "services", "configmaps", "secrets", "ingresses", "pv", "pvc" >>

\* The timestamp `date +%Y-%m-%d_%H-%M-%S` printed.
Timestamp == "2024-01-01_00-00-00"
s3_prefix == "backup_" \o Timestamp
\* args.local_backup_path, as components.
local_backup_path == << "backups", "backup_" \o Timestamp >>

EtcdBackupPath == << "etcd-backup", "etcd" >>
ManifestsBackupPath == << "manifests-backup", "manifests" >>
InfoFile == << "k3s_info.txt" >>
SnapshotFile == EtcdBackupPath \o << "snapshot.db" >>

VersionCmd == "k3s --version"
StatusCmd == "systemctl is-active k3s"
SnapshotCmd == "k3s etcd-snapshot save"
GetCmd(resource) == "kubectl get " \o resource

----------------------------------------------------------------------------
(* Helpers *)

Last(s) == s[Len(s)]

\* os.makedirs(path): the directory and every missing ancestor below the root.
MakeDirs(path) == { SubSeq(path, 1, n) : n \in 1..Len(path) }

\* Text of a path on a host whose separator is sep (os.path.join of the components).
RECURSIVE JoinPath(_, _)
JoinPath(comps, sep) ==
    IF comps = << >> THEN ""
    ELSE IF Len(comps) = 1 THEN comps[1]
    ELSE comps[1] \o sep \o JoinPath(Tail(comps), sep)

\* os.path.relpath(path, start) where start is an ancestor of path.
RelPath(path, start) == SubSeq(path, Len(start) + 1, Len(path))

\* Order in which the host lists directory entries (fixed for the model).
NameOrder == << "deployments.yaml", "services.yaml", "configmaps.yaml", "secrets.yaml",
                "ingresses.yaml", "pv.yaml", "pvc.yaml", "k3s_info.txt", "snapshot.db",
                "x.yaml", "README.md", "etcd-backup", "etcd", "manifests-backup",
                "manifests" >>
Rank(name) == CHOOSE i \in DOMAIN NameOrder : NameOrder[i] = name

RECURSIVE Listed(_)
Listed(S) ==
    IF S = {} THEN << >>
    ELSE LET p == CHOOSE q \in S : \A r \in S : Rank(Last(q)) <= Rank(Last(r))
         IN  << p >> \o Listed(S \ {p})

IsChild(p, d) == Len(p) = Len(d) + 1 /\ SubSeq(p, 1, Len(d)) = d
\* One os.walk step on directory d: its sub-directories and its files.
SubDirs(d) == Listed({ p \in dirs : IsChild(p, d) })
FilesIn(d) == Listed({ p \in DOMAIN files : IsChild(p, d) })

\* The whole top-down walk from directory d: every file below d, in walk order.
RECURSIVE WalkAll(_)
RECURSIVE WalkEach(_)
WalkEach(ds) == IF ds = << >> THEN << >> ELSE WalkAll(Head(ds)) \o WalkEach(Tail(ds))
WalkAll(d) == FilesIn(d) \o WalkEach(SubDirs(d))

Stdout(cmd) == "stdout(" \o cmd \o ")"
Stderr(cmd) == "stderr(" \o cmd \o ")"

Failures(log) == Cardinality({ i \in DOMAIN log : ~log[i].ok })


\* Number of upload attempts of the current upload_to_s3 call that failed.
UploadFailures == Cardinality({ i \in DOMAIN attempted : ~attempted[i].ok })

----------------------------------------------------------------------------
(* backup_k3s.py *)

\* run_command without its except clause: CalledProcessError leaves the function.
RunCommandUncaught(cmd, ok) ==
    [ raised |-> ~ok, output |-> IF ok THEN Stdout(cmd) ELSE Stderr(cmd) ]

\* run_command: the exit status of the command is ok or not; CalledProcessError
\* is caught and the captured stderr is returned in place of stdout.
RunCommand(cmd, ok) ==
    [ raised |-> FALSE, output |-> IF ok THEN Stdout(cmd) ELSE Stderr(cmd) ]

\* The snapshot taken whatever get_k3s_info() found.
SnapshotAlways(info) == TRUE

\* The branch `if k3s_info['uses_etcd']` of backup_k3s().
SnapshotWanted(info) == info.uses_etcd

\* The etcd directory created only when the snapshot is going to be taken.
BackupDirsWhenUsed(info) ==
    (IF info.uses_etcd THEN MakeDirs(EtcdBackupPath) ELSE {}) \cup MakeDirs(ManifestsBackupPath)

\* The directories backup_k3s() creates with os.makedirs.
BackupDirs(info) == MakeDirs(EtcdBackupPath) \cup MakeDirs(ManifestsBackupPath)

\* file_path of a resource: os.path.join(args.local_backup_path, f"{resource}.yaml").
ResourceFile(resource) == << resource \o ".yaml" >>

\* The entries of the manifests directory that backup_k3s() copies.
CopiedManifests(names) == { n \in names : n.ext = ".yaml" }
ManifestFile(n) == ManifestsBackupPath \o << n.stem \o n.ext >>

\* The text written to k3s_info.txt: one "key: value" line per entry of the dict.
InfoText(info) ==
    "version: " \o info.version \o "\n"
    \o "uses_etcd: " \o (IF info.uses_etcd THEN "True" ELSE "False") \o "\n"
    \o "service_status: " \o info.service_status \o "\n"

\* s3_key of backup_k3s.py: f"{args.s3_prefix}/{relative_path}".
K3sKey(f, sep) ==
    s3_prefix \o "/" \o JoinPath(RelPath(local_backup_path \o f, local_backup_path), sep)

\* An exception leaves main() through `raise`: the process exits with status 1.
K_Raise == pc' = "k_exit" /\ k3sExit' = "failure"

\* Module level: os.makedirs(args.local_backup_path, exist_ok=True).
K_ModuleInit ==
    /\ pc = "k_module"
    /\ IF env.writable
       THEN /\ dirs' = dirs \cup { << >> }
            /\ pc' = "k_info"
            /\ UNCHANGED k3sExit
       ELSE /\ K_Raise
            /\ UNCHANGED dirs
    /\ UNCHANGED << env, k3s_info, resIdx, files, cmdLog, walkStack, curFiles,
                    files_to_upload, attempted, bucket, walkCount, runResult >>

\* get_k3s_info()
K_GetInfo ==
    /\ pc = "k_info"
    /\ \E vOk \in BOOLEAN, sOk \in BOOLEAN :
         LET v == RunCommand(VersionCmd, vOk)
             s == RunCommand(StatusCmd, sOk)
             log1 == Append(cmdLog, [cmd |-> VersionCmd, ok |-> vOk])
             log2 == Append(log1, [cmd |-> StatusCmd, ok |-> sOk])
         IN  IF v.raised
             THEN /\ cmdLog' = log1
                  /\ Failures(log1) <= env.cmdFailLimit
                  /\ K_Raise
                  /\ UNCHANGED k3s_info
             ELSE /\ cmdLog' = log2
                  /\ Failures(log2) <= env.cmdFailLimit
                  /\ IF s.raised
                     THEN K_Raise /\ UNCHANGED k3s_info
                     ELSE /\ k3s_info' = [ version |-> v.output,
                                           uses_etcd |-> env.etcdDir,
                                           service_status |-> s.output ]
                          /\ pc' = "k_mkdirs"
                          /\ UNCHANGED k3sExit
    /\ UNCHANGED << env, resIdx, dirs, files, walkStack, curFiles,
                    files_to_upload, attempted, bucket, walkCount, runResult >>

\* backup_k3s(): create the backup directories.
K_MakeDirs ==
    /\ pc = "k_mkdirs"
    /\ dirs' = dirs \cup BackupDirs(k3s_info)
    /\ pc' = "k_etcd"
    /\ UNCHANGED << env, k3s_info, resIdx, files, cmdLog, walkStack, curFiles,
                    files_to_upload, attempted, bucket, walkCount, k3sExit, runResult >>

\* backup_k3s(): backup etcd if it is being used.
K_Etcd ==
    /\ pc = "k_etcd"
    /\ IF SnapshotWanted(k3s_info)
       THEN \E ok \in BOOLEAN :
              LET r == RunCommand(SnapshotCmd, ok)
              IN  /\ cmdLog' = Append(cmdLog, [cmd |-> SnapshotCmd, ok |-> ok])
                  /\ Failures(cmdLog') <= env.cmdFailLimit
                  /\ files' = IF ok THEN (SnapshotFile :> "snapshot") @@ files
                                    ELSE files
                  /\ IF r.raised
                     THEN K_Raise /\ UNCHANGED resIdx
                     ELSE pc' = "k_export" /\ resIdx' = 1 /\ UNCHANGED k3sExit
       ELSE /\ pc' = "k_export"
            /\ resIdx' = 1
            /\ UNCHANGED << cmdLog, files, k3sExit >>
    /\ UNCHANGED << env, k3s_info, dirs, walkStack, curFiles,
                    files_to_upload, attempted, bucket, walkCount, runResult >>

\* backup_k3s(): one iteration of `for resource in resources`.
K_Export ==
    /\ pc = "k_export"
    /\ resIdx <= Len(resources)
    /\ \E ok \in BOOLEAN :
         LET resource == resources[resIdx]
             r == RunCommand(GetCmd(resource), ok)
         IN  /\ cmdLog' = Append(cmdLog, [cmd |-> GetCmd(resource), ok |-> ok])
             /\ Failures(cmdLog') <= env.cmdFailLimit
             /\ IF r.raised
                THEN K_Raise /\ UNCHANGED << files, resIdx >>
                ELSE /\ files' = (ResourceFile(resource) :> r.output) @@ files
                     /\ resIdx' = resIdx + 1
                     /\ pc' = IF resIdx = Len(resources) THEN "k_manifests" ELSE "k_export"
                     /\ UNCHANGED k3sExit
    /\ UNCHANGED << env, k3s_info, dirs, walkStack, curFiles,
                    files_to_upload, attempted, bucket, walkCount, runResult >>

\* backup_k3s(): copy the .yaml files of the manifests directory.
K_Manifests ==
    /\ pc = "k_manifests"
    /\ IF env.manifests.exists
       THEN files' = [ p \in { ManifestFile(n) : n \in CopiedManifests(env.manifests.names) }
                         |-> "manifest" ] @@ files
       ELSE UNCHANGED files
    /\ pc' = "k_saveinfo"
    /\ UNCHANGED << env, k3s_info, resIdx, dirs, cmdLog, walkStack, curFiles,
                    files_to_upload, attempted, bucket, walkCount, k3sExit, runResult >>

\* backup_k3s(): save the K3s info; collection is complete.
K_SaveInfo ==
    /\ pc = "k_saveinfo"
    /\ files' = (InfoFile :> InfoText(k3s_info)) @@ files
    /\ pc' = "k_collected"
    /\ UNCHANGED << env, k3s_info, resIdx, dirs, cmdLog, walkStack, curFiles,
                    files_to_upload, attempted, bucket, walkCount, k3sExit, runResult >>

\* upload_to_s3(): os.walk(args.local_backup_path) is created; it lists nothing yet.
K_UploadStart ==
    /\ pc = "k_collected"
    /\ walkStack' = IF << >> \in dirs THEN << << >> >> ELSE << >>
    /\ curFiles' = << >>
    /\ attempted' = << >>
    /\ walkCount' = walkCount + 1
    /\ pc' = "k_walk"
    /\ UNCHANGED << env, k3s_info, resIdx, dirs, files, cmdLog,
                    files_to_upload, bucket, k3sExit, runResult >>

\* upload_to_s3(): os.walk lists the next directory and yields its files.
K_WalkStep ==
    /\ pc = "k_walk"
    /\ curFiles = << >>
    /\ walkStack # << >>
    /\ curFiles' = FilesIn(Head(walkStack))
    /\ walkStack' = SubDirs(Head(walkStack)) \o Tail(walkStack)
    /\ UNCHANGED << env, pc, k3s_info, resIdx, dirs, files, cmdLog,
                    files_to_upload, attempted, bucket, walkCount, k3sExit, runResult >>

\* upload_to_s3(): one iteration of `for file in files`; s3_client.upload_file
\* raises on failure and nothing catches it before main().
K_Upload ==
    /\ pc = "k_walk"
    /\ curFiles # << >>
    /\ \E ok \in BOOLEAN :
         LET f == Head(curFiles)
             key == K3sKey(f, env.sep)
         IN  /\ attempted' = Append(attempted, [file |-> f, key |-> key, ok |-> ok])
             /\ UploadFailures' <= env.uploadFailLimit
             /\ IF ok
                THEN /\ bucket' = bucket \cup { key }
                     /\ curFiles' = Tail(curFiles)
                     /\ UNCHANGED << pc, k3sExit >>
                ELSE /\ K_Raise
                     /\ UNCHANGED << bucket, curFiles >>
    /\ UNCHANGED << env, k3s_info, resIdx, dirs, files, cmdLog, walkStack,
                    files_to_upload, walkCount, runResult >>

\* upload_to_s3() returns and main() logs the completed backup.
K_UploadDone ==
    /\ pc = "k_walk"
    /\ curFiles = << >>
    /\ walkStack = << >>
    /\ pc' = "k_exit"
    /\ k3sExit' = "success"
    /\ UNCHANGED << env, k3s_info, resIdx, dirs, files, cmdLog, walkStack, curFiles,
                    files_to_upload, attempted, bucket, walkCount, runResult >>

\* backup_k3s.py run on its own: the exit status of the process is the outcome.
K_Exit ==
    /\ pc = "k_exit"
    /\ env.mode = "backup_k3s"
    /\ pc' = "done"
    /\ runResult' = k3sExit
    /\ UNCHANGED << env, k3s_info, resIdx, dirs, files, cmdLog, walkStack, curFiles,
                    files_to_upload, attempted, bucket, walkCount, k3sExit >>

NextK3s ==
    \/ K_ModuleInit
    \/ K_GetInfo
    \/ K_MakeDirs
    \/ K_Etcd
    \/ K_Export
    \/ K_Manifests
    \/ K_SaveInfo
    \/ K_UploadStart
    \/ K_WalkStep
    \/ K_Upload
    \/ K_UploadDone
    \/ K_Exit

----------------------------------------------------------------------------
(* aws_merged_backup_script.py *)

\* Exit status of the generated backup_k3s.sh: that of its last command,
\* `deactivate`, whatever the status of the python3 call before it.
WrapperExit(pyStatus) == "success"

\* s3_key of aws_merged_backup_script.py: os.path.join(prefix, relative_path).
AwsKey(f, sep) ==
    JoinPath(<< s3_prefix, JoinPath(RelPath(local_backup_path \o f, local_backup_path), sep) >>,
             sep)

\* files_to_upload as upload_to_s3 builds it: one task per file of the walk.
RECURSIVE Tasks(_, _)
Tasks(fs, sep) ==
    IF fs = << >> THEN << >>
    ELSE << [file |-> Head(fs), key |-> AwsKey(Head(fs), sep)] >> \o Tasks(Tail(fs), sep)

\* main(): clone_repo, setup_venv, update_backup_script; each subprocess runs
\* with check=True, so a failure ends main() in sys.exit(1).
A_Bootstrap ==
    /\ pc = "a_boot"
    /\ \E ok \in BOOLEAN :
         IF ok THEN pc' = "a_run" /\ UNCHANGED runResult
               ELSE pc' = "done" /\ runResult' = "failure"
    /\ UNCHANGED << env, k3s_info, resIdx, dirs, files, cmdLog, walkStack, curFiles,
                    files_to_upload, attempted, bucket, walkCount, k3sExit >>

\* run_backup_script(): the wrapper is started and runs backup_k3s.py.
A_RunScript ==
    /\ pc = "a_run"
    /\ pc' = "k_module"
    /\ UNCHANGED << env, k3s_info, resIdx, dirs, files, cmdLog, walkStack, curFiles,
                    files_to_upload, attempted, bucket, walkCount, k3sExit, runResult >>

\* run_backup_script(): the wrapper has ended; CalledProcessError on a non-zero status.
A_ScriptReturn ==
    /\ pc = "k_exit"
    /\ env.mode = "aws_merged"
    /\ IF WrapperExit(k3sExit) = "success"
       THEN pc' = "a_upload_start" /\ UNCHANGED runResult
       ELSE pc' = "done" /\ runResult' = "failure"
    /\ UNCHANGED << env, k3s_info, resIdx, dirs, files, cmdLog, walkStack, curFiles,
                    files_to_upload, attempted, bucket, walkCount, k3sExit >>

\* upload_to_s3(): the existence check, the walk that builds files_to_upload,
\* and the check for an empty list.
A_UploadStart ==
    /\ pc = "a_upload_start"
    /\ attempted' = << >>
    /\ IF << >> \notin dirs
       THEN /\ pc' = "a_finish"
            /\ UNCHANGED << files_to_upload, walkCount >>
       ELSE /\ files_to_upload' = Tasks(WalkAll(<< >>), env.sep)
            /\ walkCount' = walkCount + 1
            /\ pc' = IF files_to_upload' = << >> THEN "a_finish" ELSE "a_upload"
    /\ UNCHANGED << env, k3s_info, resIdx, dirs, files, cmdLog, walkStack, curFiles,
                    bucket, k3sExit, runResult >>

\* upload_to_s3(): one iteration of `for local_file, s3_key in files_to_upload`;
\* every exception of s3.upload_file is caught and logged.
A_Upload ==
    /\ pc = "a_upload"
    /\ files_to_upload # << >>
    /\ \E ok \in BOOLEAN :
         LET t == Head(files_to_upload)
         IN  /\ attempted' = Append(attempted, [file |-> t.file, key |-> t.key, ok |-> ok])
             /\ UploadFailures' <= env.uploadFailLimit
             /\ bucket' = IF ok THEN bucket \cup { t.key } ELSE bucket
    /\ files_to_upload' = Tail(files_to_upload)
    /\ pc' = IF files_to_upload' = << >> THEN "a_verify" ELSE "a_upload"
    /\ UNCHANGED << env, k3s_info, resIdx, dirs, files, cmdLog, walkStack, curFiles,
                    walkCount, k3sExit, runResult >>

\* upload_to_s3(): the verification listing; its exceptions are caught and logged.
A_Verify ==
    /\ pc = "a_verify"
    /\ pc' = "a_finish"
    /\ UNCHANGED << env, k3s_info, resIdx, dirs, files, cmdLog, walkStack, curFiles,
                    files_to_upload, attempted, bucket, walkCount, k3sExit, runResult >>

\* main(): upload_to_s3 has returned; "Backup process completed successfully."
A_Finish ==
    /\ pc = "a_finish"
    /\ pc' = "done"
    /\ runResult' = "success"
    /\ UNCHANGED << env, k3s_info, resIdx, dirs, files, cmdLog, walkStack, curFiles,
                    files_to_upload, attempted, bucket, walkCount, k3sExit >>

----------------------------------------------------------------------------
(* Specifications *)

\* Number of run_command calls of one run of backup_k3s.py.
NumCommands == Len(resources) + 3

Manifests ==
    { [exists |-> FALSE, names |-> {}] }
    \cup { [exists |-> TRUE, names |-> S] : S \in SUBSET ManifestNames }

Envs(modes, cmdLimit) ==
    [ mode : modes, sep : Seps, etcdDir : BOOLEAN, manifests : Manifests,
      writable : BOOLEAN, cmdFailLimit : { cmdLimit },
      uploadFailLimit : { MaxUploadFailures } ]

InitIn(envs) ==
    /\ env \in envs
    /\ pc = IF env.mode = "backup_k3s" THEN "k_module" ELSE "a_boot"
    /\ k3s_info = [ version |-> "", uses_etcd |-> FALSE, service_status |-> "" ]
    /\ resIdx = 1
    /\ dirs = {}
    /\ files = << >>
    /\ cmdLog = << >>
    /\ walkStack = << >>
    /\ curFiles = << >>
    /\ files_to_upload = << >>
    /\ attempted = << >>
    /\ bucket = {}
    /\ walkCount = 0
    /\ k3sExit = "none"
    /\ runResult = "none"

\* The pipeline from either entry point, with a bounded number of failing commands.
Init == InitIn(Envs({ "backup_k3s", "aws_merged" }, MaxCmdFailures))

Next ==
    \/ NextK3s
    \/ A_Bootstrap
    \/ A_RunScript
    \/ A_ScriptReturn
    \/ A_UploadStart
    \/ A_Upload
    \/ A_Verify
    \/ A_Finish

Spec == Init /\ [][Next]_vars

\* backup_k3s.py run on its own, with any of its commands failing.
InitK3s == InitIn(Envs({ "backup_k3s" }, NumCommands))

SpecK3s == InitK3s /\ [][NextK3s]_vars

----------------------------------------------------------------------------
(* Vocabulary of the properties *)

Ran(cmd) == \E i \in DOMAIN cmdLog : cmdLog[i].cmd = cmd
CmdFailed(cmd) == \E i \in DOMAIN cmdLog : cmdLog[i].cmd = cmd /\ ~cmdLog[i].ok

\* The export command and the artifact of each entry of `resources`.
ExportCmd == [ i \in DOMAIN resources |-> "kubectl get " \o resources[i] ]
ExportFile == [ i \in DOMAIN resources |-> << resources[i] \o ".yaml" >> ]
ExportCmds == { ExportCmd[i] : i \in DOMAIN resources }
IsGetCmd(e) == e.cmd \in ExportCmds
\* The export commands run so far, in the order they were run.
ExportsRun == SelectSeq(cmdLog, IsGetCmd)

CollectionBegan == cmdLog # << >>
CollectionDone == << "k3s_info.txt" >> \in DOMAIN files
\* backup_k3s() was left by an exception.
CollectionAborted == k3sExit = "failure" /\ CollectionBegan /\ ~CollectionDone

FilesUnder(d) == { p \in DOMAIN files : Len(p) > Len(d) /\ SubSeq(p, 1, Len(d)) = d }

Attempts(f) == Cardinality({ i \in DOMAIN attempted : attempted[i].file = f })
\* An upload_to_s3 call that walked the staging area has returned or raised.
UploadEnded == walkCount >= 1 /\ pc \in { "k_exit", "a_verify", "a_finish", "done" }

----------------------------------------------------------------------------
(* Properties of collection: backup_k3s(), checked under SpecK3s *)

\* C1: when the consensus store is in use and the snapshot command exits
\* non-zero, the run is aborted: no export command is run afterwards, no
\* manifest is copied, k3s_info.txt is not written, nothing is uploaded and
\* main() does not end in success.
C1_SnapshotFailureAborts ==
    CmdFailed(SnapshotCmd) =>
        /\ ExportsRun = << >>
        /\ FilesUnder(ManifestsBackupPath) = {}
        /\ ~CollectionDone
        /\ attempted = << >>
        /\ bucket = {}
        /\ k3sExit # "success"
        /\ runResult # "success"

\* C4: when the consensus-store data directory does not exist the snapshot
\* command is never run, collection is not left by an error and goes on to
\* its end through the seven exports; with the manifests directory absent as
\* well, collection ends with both backup directories empty and a non-empty
\* k3s_info.txt.
C4_NoSnapshotWithoutEtcd ==
    ~env.etcdDir =>
        /\ ~Ran(SnapshotCmd)
        /\ ~CollectionAborted
        /\ pc \in { "k_etcd", "k_export", "k_manifests", "k_saveinfo" } => ENABLED NextK3s
        /\ CollectionDone =>
             /\ Len(ExportsRun) = Len(resources)
             /\ files[<< "k3s_info.txt" >>] # ""
        /\ (CollectionDone /\ ~env.manifests.exists) =>
             /\ << "etcd-backup", "etcd" >> \in dirs
             /\ << "manifests-backup", "manifests" >> \in dirs
             /\ FilesUnder(<< "etcd-backup", "etcd" >>) = {}
             /\ FilesUnder(<< "manifests-backup", "manifests" >>) = {}

C4_Witness ==
    /\ pc = "k_collected"
    /\ ~env.etcdDir
    /\ ~env.manifests.exists
    /\ Len(ExportsRun) = Len(resources)

\* C5: whichever of the seven export commands exit non-zero, the export
\* command is run for all seven kinds in the order of the list, collection
\* reaches its end, and <kind>.yaml holds the output of every kind whose
\* command succeeded.
C5_ExportFailuresDoNotStopCollection ==
    /\ Len(ExportsRun) <= Len(resources)
    /\ \A i \in DOMAIN ExportsRun : ExportsRun[i].cmd = ExportCmd[i]
    /\ ~CollectionAborted
    /\ pc \in { "k_export", "k_manifests", "k_saveinfo" } => ENABLED NextK3s
    /\ CollectionDone =>
         /\ Len(ExportsRun) = Len(resources)
         /\ \A i \in DOMAIN ExportsRun :
              ExportsRun[i].ok =>
                /\ ExportFile[i] \in DOMAIN files
                /\ files[ExportFile[i]] = Stdout(ExportCmd[i])

C5_Witness ==
    /\ pc = "k_collected"
    /\ Len(ExportsRun) = Len(resources)
    /\ ~ExportsRun[1].ok
    /\ ~ExportsRun[4].ok
    /\ ExportsRun[Len(resources)].ok
    /\ << "pvc.yaml" >> \in DOMAIN files

\* C8: from the directory-creation step to the end of collection both
\* etcd-backup/etcd and manifests-backup/manifests exist, they exist before
\* the snapshot command or any export is run, and the staging root gets no
\* other sub-directory.
C8_BackupDirsExist ==
    /\ pc \in { "k_etcd", "k_export", "k_manifests", "k_saveinfo", "k_collected" } =>
         /\ << "etcd-backup", "etcd" >> \in dirs
         /\ << "manifests-backup", "manifests" >> \in dirs
    /\ (Ran(SnapshotCmd) \/ ExportsRun # << >>) =>
         /\ << "etcd-backup", "etcd" >> \in dirs
         /\ << "manifests-backup", "manifests" >> \in dirs
    /\ dirs \subseteq { << >>, << "etcd-backup" >>, << "etcd-backup", "etcd" >>,
                        << "manifests-backup" >>, << "manifests-backup", "manifests" >> }

C8_Witness ==
    /\ pc = "k_collected"
    /\ env.etcdDir
    /\ ~env.manifests.exists
    /\ Ran(SnapshotCmd)
    /\ << "etcd-backup", "etcd" >> \in dirs
    /\ << "manifests-backup", "manifests" >> \in dirs

\* C10: the text of <kind>.yaml is the standard output of the kind's query
\* command; the error text of a command that exited non-zero is never
\* written as the content of the artifact.
C10_ArtifactIsStdout ==
    \A i \in DOMAIN resources :
        ExportFile[i] \in DOMAIN files => files[ExportFile[i]] = Stdout(ExportCmd[i])

----------------------------------------------------------------------------
(* Properties of upload and of the pipeline, checked under Spec *)

\* C2: in each upload_to_s3, whichever uploads fail, every file of the
\* staging area gets exactly one upload attempt: a failed upload does not
\* prevent the attempt on the files after it.
C2_EveryFileAttemptedOnce ==
    UploadEnded => \A f \in DOMAIN files : Attempts(f) = 1

\* C3: the run ends in success if and only if the mandatory snapshot step
\* did not fail; failed uploads never make the outcome a failure.  (Stated
\* for the runs in which collection began.)
C3_SuccessIffSnapshotOk ==
    (pc = "done" /\ CollectionBegan) =>
        (runResult = "success" <=> ~CmdFailed(SnapshotCmd))

\* C6: the upload tasks upload_to_s3 attempts are the regular files under
\* the staging root, none skipped and none twice, and directories give no
\* task; with the root missing or without files nothing is attempted and
\* the call returns normally.
C6_TasksAreTheFiles ==
    /\ UploadEnded =>
         /\ { attempted[i].file : i \in DOMAIN attempted } = DOMAIN files
         /\ Len(attempted) = Cardinality(DOMAIN files)
    /\ (pc = "a_finish" /\ (<< >> \notin dirs \/ DOMAIN files = {})) => attempted = << >>

\* C7: the remote key of every file is <prefix>/<relative path> with the
\* components separated by forward slashes, whatever the separator of the host.
C7_KeysUseForwardSlashes ==
    \A i \in DOMAIN attempted :
        attempted[i].key = s3_prefix \o "/" \o JoinPath(attempted[i].file, "/")

\* C9: the staging area is enumerated once in a run, after collection is
\* complete, and the enumeration is finished before the first upload: no
\* upload is attempted while directories are still to be listed.
C9_OneWalkBeforeUploads ==
    /\ walkCount <= 1
    /\ walkCount >= 1 => CollectionDone
    /\ (pc = "k_walk" /\ attempted # << >>) => walkStack = << >>

====
